---- MODULE Spec2Model ----
(***************************************************************************)
(* Model of wireless_sensor.FT017TH (src/wireless_sensor/__init__.py).     *)
(*                                                                         *)
(* Spec and FairSpec: receive, the asynchronous generator that acquires    *)
(* the CC1101 transceiver, configures it, polls for packets and yields     *)
(* measurements until the inactivity deadline `timeout` has passed.        *)
(*                                                                         *)
(* DecodeSpec: the decoding functions _parse_message, _parse_transmission  *)
(* and _receive_measurement, called on enumerated messages, transmissions  *)
(* and packets.                                                            *)
(*                                                                         *)
(* Time is counted in whole seconds.  Time passes only where the coroutine *)
(* is suspended or blocked: in asyncio.sleep, in the transceiver's         *)
(* _wait_for_packet and while the consumer holds the generator suspended   *)
(* at its yield.                                                           *)
(***************************************************************************)
EXTENDS Integers, Sequences, FiniteSets, TLC

\* ---- bounds of the model ----
MaxTimeoutSeconds == 7   \* the largest timeout_seconds a session is started with
MaxMeasurements == 2     \* packets that decode to a Measurement, per session
MaxDelay == 1            \* longest time the consumer keeps the generator at its yield
MaxJitter == 1           \* longest time asyncio.sleep oversleeps
MaxUnexpected == 2       \* packets of unexpected length, per session
MaxPollBlocked == 1      \* BlockingIOErrors raised while polling, per session

\* ---- constants of the program ----
_LOCK_WAIT_START_SECONDS == 2
_LOCK_WAIT_FACTOR == 2
FloodProtectionSeconds == 1
ReconfigureCooldownSeconds == 1
MinWaitSeconds == 1

\* the values of timeout_seconds the sessions are started with
TimeoutSecondsChoices == {1, 2, MaxTimeoutSeconds}

None == 0   \* the value of `measurement` when _receive_measurement returns None

VARIABLES
    pc,                 \* position of the coroutine
    now,                \* time.time()
    timeout_seconds,    \* argument of receive()
    unlock_spi_device,  \* self._unlock_spi_device
    timeout,            \* local `timeout`: the absolute deadline
    lock_wait_seconds,  \* local `lock_wait_seconds`
    measurement,        \* local `measurement`
    held,               \* inside `with self._transceiver`
    spi_locked,         \* the flock on the SPI device file is held
    configured,         \* _configure_transceiver ran since the last acquisition
    sleeping,           \* argument of the asyncio.sleep being awaited
    logged,             \* duration in the last "SPI device locked, waiting" record
    out,                \* items delivered to the consumer, in order
    decoded,            \* measurements returned by _parse_transmission, in order
    lastOutcome,        \* outcome of the last _receive_measurement call
    lastRaised,         \* the last exception that left the try block
    lastPollReturn,     \* time at which the last _receive_measurement call ended
    producedAt,         \* time of the last yield
    resumedAt,          \* time at which the consumer last resumed the generator
    contentions,        \* BlockingIOErrors handled since lock_wait_seconds was last set to its start value
    contentionsSinceAcquire, \* BlockingIOErrors handled since the last successful __enter__
    acquisitions,       \* successful __enter__ calls
    unexpectedCount,    \* _UnexpectedPacketLengthErrors raised
    pollBlockedCount,   \* BlockingIOErrors raised by _receive_measurement
    cycle,              \* release/cooldown/acquire/configure events since the last poll
    waitTimeoutArg,     \* timeout_seconds given to the last _receive_measurement call
    pollIssuedAt,       \* time at which the last _receive_measurement call was made
    dcall,              \* the last call of a decoding function: its input and its result
    unlocks             \* self._transceiver.unlock_spi_device() calls

vars == <<pc, now, timeout_seconds, unlock_spi_device, timeout, lock_wait_seconds,
          measurement, held, spi_locked, configured, sleeping, logged, out, decoded,
          lastOutcome, lastRaised, lastPollReturn, producedAt, resumedAt, contentions,
          contentionsSinceAcquire, acquisitions, unexpectedCount, pollBlockedCount,
          cycle, waitTimeoutArg, pollIssuedAt, dcall, unlocks>>

Max(a, b) == IF a >= b THEN a ELSE b

RECURSIVE Pow2(_)
Pow2(k) == IF k = 0 THEN 1 ELSE 2 * Pow2(k - 1)

Terminal == {"Ended", "Closed", "Failed"}

\* the outcomes of one _receive_measurement call
PollOutcomes == {"NoPacket", "DecodeError", "Measurement", "UnexpectedLength",
                 "WouldBlock", "Error"}

\* `timeout = time.time() + timeout_seconds`
NoDeadlineReset(t, s) == t
NewDeadline(t, s) == t + s

\* `while time.time() < timeout`
BeforeDeadlineInclusive(t, d) == t <= d
BeforeDeadline(t, d) == t < d

\* `max(int(timeout - time.time()), 1)`
WaitTimeoutNoFloor(d, t) == d - t
WaitTimeout(d, t) == Max(d - t, MinWaitSeconds)

\* how long _wait_for_packet blocks when given the timeout a: it returns at once,
\* after one second, or when the timeout expires
WaitDurations(a) == {0, 1, a}

\* `if measurement:`
Truthy(m) == m # None

\* `yield measurement`
DeliverNothing(o, m) == o
Deliver(o, m) == Append(o, m)

\* `lock_wait_seconds *= self._LOCK_WAIT_FACTOR`
NextLockWaitAdd(w) == w + _LOCK_WAIT_FACTOR
NextLockWait(w) == w * _LOCK_WAIT_FACTOR

\* CC1101.__exit__ at the end of the `with` block: the value of `held` after it
ExitContextLeak(h) == h
ExitContext(h) == FALSE

\* the except clauses of receive(): where an exception raised in the try block leads
HandlerNoBlockingClause(exc) ==
    IF exc = "UnexpectedLength" THEN "cooldown" ELSE "Failed"
HandlerMergedClauses(exc) ==
    IF exc \in {"UnexpectedLength", "WouldBlock"} THEN "backoff" ELSE "Failed"
HandlerBlockingAsUnexpected(exc) ==
    IF exc \in {"UnexpectedLength", "WouldBlock"} THEN "cooldown" ELSE "Failed"
Handler(exc) ==
    IF exc = "UnexpectedLength" THEN "cooldown"
    ELSE IF exc = "WouldBlock" THEN "backoff"
    ELSE "Failed"

\* no decoding function has been called
NoCall == [fn |-> "none"]

Init ==
    /\ pc = "start"
    /\ now = 0
    /\ timeout_seconds \in TimeoutSecondsChoices
    /\ unlock_spi_device \in BOOLEAN
    /\ timeout = 0
    /\ lock_wait_seconds = 0
    /\ measurement = None
    /\ held = FALSE
    /\ spi_locked = FALSE
    /\ configured = FALSE
    /\ sleeping = 0
    /\ logged = 0
    /\ out = <<>>
    /\ decoded = <<>>
    /\ lastOutcome = "none"
    /\ lastRaised = "none"
    /\ lastPollReturn = -1
    /\ producedAt = -1
    /\ resumedAt = -1
    /\ contentions = 0
    /\ contentionsSinceAcquire = 0
    /\ acquisitions = 0
    /\ unexpectedCount = 0
    /\ pollBlockedCount = 0
    /\ cycle = <<>>
    /\ waitTimeoutArg = 0
    /\ pollIssuedAt = -1
    /\ dcall = NoCall
    /\ unlocks = 0

\* an exception leaves the try block: the `with` block (if entered) is exited,
\* then the matching except clause starts (or the exception propagates);
\* c is the event record the release is appended to
Raise(exc, c) ==
    /\ lastRaised' = exc
    /\ pc' = Handler(exc)
    /\ held' = ExitContext(held)
    /\ spi_locked' = (ExitContext(held) /\ spi_locked)
    /\ cycle' = IF held THEN Append(c, "release") ELSE c
    /\ sleeping' = IF Handler(exc) = "cooldown" THEN ReconfigureCooldownSeconds
                   ELSE IF Handler(exc) = "backoff" THEN lock_wait_seconds
                   ELSE sleeping
    /\ logged' = IF Handler(exc) = "backoff" THEN lock_wait_seconds ELSE logged
    /\ contentions' = IF Handler(exc) = "backoff" THEN contentions + 1 ELSE contentions
    /\ contentionsSinceAcquire' =
           IF Handler(exc) = "backoff" THEN contentionsSinceAcquire + 1
           ELSE contentionsSinceAcquire

\* lines 166-168
Start ==
    /\ pc = "start"
    /\ lock_wait_seconds' = _LOCK_WAIT_START_SECONDS
    /\ timeout' = NewDeadline(now, timeout_seconds)
    /\ pc' = "outer"
    /\ UNCHANGED <<lastRaised, now, timeout_seconds, unlock_spi_device, measurement, held, spi_locked,
                   configured, sleeping, logged, out, decoded, lastOutcome, lastPollReturn,
                   producedAt, resumedAt, contentions, contentionsSinceAcquire,
                   acquisitions, unexpectedCount, pollBlockedCount, cycle>>
    /\ UNCHANGED <<waitTimeoutArg, pollIssuedAt, dcall, unlocks>>

\* line 169 (and line 201 when the condition fails)
OuterLoop ==
    /\ pc = "outer"
    /\ pc' = IF BeforeDeadline(now, timeout) THEN "enter" ELSE "Ended"
    /\ UNCHANGED <<lastRaised, now, timeout_seconds, unlock_spi_device, timeout, lock_wait_seconds,
                   measurement, held, spi_locked, configured, sleeping, logged, out,
                   decoded, lastOutcome, lastPollReturn, producedAt, resumedAt,
                   contentions, contentionsSinceAcquire, acquisitions, unexpectedCount,
                   pollBlockedCount, cycle>>
    /\ UNCHANGED <<waitTimeoutArg, pollIssuedAt, dcall, unlocks>>

\* line 171: CC1101.__enter__ takes the flock without blocking
EnterAcquired ==
    /\ pc = "enter"
    /\ held' = TRUE
    /\ spi_locked' = TRUE
    /\ configured' = FALSE
    /\ acquisitions' = acquisitions + 1
    /\ contentionsSinceAcquire' = 0
    /\ cycle' = Append(cycle, "acquire")
    /\ pc' = "configure"
    /\ UNCHANGED <<lastRaised, now, timeout_seconds, unlock_spi_device, timeout, lock_wait_seconds,
                   measurement, sleeping, logged, out, decoded, lastOutcome,
                   lastPollReturn, producedAt, resumedAt, contentions, unexpectedCount,
                   pollBlockedCount>>
    /\ UNCHANGED <<waitTimeoutArg, pollIssuedAt, dcall, unlocks>>

\* line 171 raising BlockingIOError, handled at lines 197-198
EnterWouldBlock ==
    /\ pc = "enter"
    /\ Raise("WouldBlock", cycle)
    /\ UNCHANGED <<now, timeout_seconds, unlock_spi_device, timeout, lock_wait_seconds,
                   measurement, configured, out, decoded, lastOutcome, lastPollReturn,
                   producedAt, resumedAt, acquisitions, unexpectedCount,
                   pollBlockedCount>>
    /\ UNCHANGED <<waitTimeoutArg, pollIssuedAt, dcall, unlocks>>

\* lines 172-181 with the configuration applied on the first acquisition only
ConfigureOnce ==
    /\ pc = "configure"
    /\ configured' = (acquisitions = 1)
    /\ spi_locked' = IF unlock_spi_device THEN FALSE ELSE spi_locked
    /\ unlocks' = IF unlock_spi_device THEN unlocks + 1 ELSE unlocks
    /\ cycle' = IF acquisitions = 1 THEN Append(cycle, "configure") ELSE cycle
    /\ pc' = "inner"
    /\ UNCHANGED <<lastRaised, now, timeout_seconds, unlock_spi_device, timeout,
                   lock_wait_seconds, measurement, held, sleeping, logged, out, decoded,
                   lastOutcome, lastPollReturn, producedAt, resumedAt, contentions,
                   contentionsSinceAcquire, acquisitions, unexpectedCount,
                   pollBlockedCount>>
    /\ UNCHANGED <<waitTimeoutArg, pollIssuedAt, dcall>>

\* lines 172-181 with the SPI device unlocked whatever the constructor was given
ConfigureUnlockAlways ==
    /\ pc = "configure"
    /\ configured' = TRUE
    /\ spi_locked' = FALSE
    /\ unlocks' = unlocks + 1
    /\ cycle' = Append(cycle, "configure")
    /\ pc' = "inner"
    /\ UNCHANGED <<lastRaised, now, timeout_seconds, unlock_spi_device, timeout, lock_wait_seconds,
                   measurement, held, sleeping, logged, out, decoded, lastOutcome,
                   lastPollReturn, producedAt, resumedAt, contentions,
                   contentionsSinceAcquire, acquisitions, unexpectedCount,
                   pollBlockedCount>>
    /\ UNCHANGED <<waitTimeoutArg, pollIssuedAt, dcall>>

\* lines 172-181
Configure ==
    /\ pc = "configure"
    /\ configured' = TRUE
    /\ spi_locked' = IF unlock_spi_device THEN FALSE ELSE spi_locked
    /\ unlocks' = IF unlock_spi_device THEN unlocks + 1 ELSE unlocks
    /\ cycle' = Append(cycle, "configure")
    /\ pc' = "inner"
    /\ UNCHANGED <<lastRaised, now, timeout_seconds, unlock_spi_device, timeout, lock_wait_seconds,
                   measurement, held, sleeping, logged, out, decoded, lastOutcome,
                   lastPollReturn, producedAt, resumedAt, contentions,
                   contentionsSinceAcquire, acquisitions, unexpectedCount,
                   pollBlockedCount>>
    /\ UNCHANGED <<waitTimeoutArg, pollIssuedAt, dcall>>

\* lines 172-181 when the driver raises an error that receive() does not handle
ConfigureError ==
    /\ pc = "configure"
    /\ Raise("Error", cycle)
    /\ UNCHANGED <<now, timeout_seconds, unlock_spi_device, timeout, lock_wait_seconds,
                   measurement, configured, out, decoded, lastOutcome, lastPollReturn,
                   producedAt, resumedAt, acquisitions, unexpectedCount,
                   pollBlockedCount>>
    /\ UNCHANGED <<waitTimeoutArg, pollIssuedAt, dcall, unlocks>>

\* line 182 followed at once by the poll, the sleep of line 183 left out
InnerLoopNoSleep ==
    /\ pc = "inner"
    /\ IF BeforeDeadline(now, timeout)
       THEN /\ pc' = "poll"
            /\ UNCHANGED <<held, spi_locked, cycle>>
       ELSE /\ pc' = "outer"
            /\ held' = ExitContext(held)
            /\ spi_locked' = (ExitContext(held) /\ spi_locked)
            /\ cycle' = Append(cycle, "release")
    /\ UNCHANGED <<lastRaised, now, timeout_seconds, unlock_spi_device, timeout,
                   lock_wait_seconds, measurement, configured, sleeping, logged, out,
                   decoded, lastOutcome, lastPollReturn, producedAt, resumedAt,
                   contentions, contentionsSinceAcquire, acquisitions, unexpectedCount,
                   pollBlockedCount>>
    /\ UNCHANGED <<waitTimeoutArg, pollIssuedAt, dcall, unlocks>>

\* line 182; when the condition fails the `with` block ends normally
InnerLoop ==
    /\ pc = "inner"
    /\ IF BeforeDeadline(now, timeout)
       THEN /\ pc' = "flood"
            /\ sleeping' = FloodProtectionSeconds
            /\ UNCHANGED <<held, spi_locked, cycle>>
       ELSE /\ pc' = "outer"
            /\ held' = ExitContext(held)
            /\ spi_locked' = (ExitContext(held) /\ spi_locked)
            /\ cycle' = Append(cycle, "release")
            /\ UNCHANGED sleeping
    /\ UNCHANGED <<lastRaised, now, timeout_seconds, unlock_spi_device, timeout, lock_wait_seconds,
                   measurement, configured, logged, out, decoded, lastOutcome,
                   lastPollReturn, producedAt, resumedAt, contentions,
                   contentionsSinceAcquire, acquisitions, unexpectedCount,
                   pollBlockedCount>>
    /\ UNCHANGED <<waitTimeoutArg, pollIssuedAt, dcall, unlocks>>

\* line 183 with the sleep not awaited: no time passes before the poll
FloodSleepNotAwaited ==
    /\ pc = "flood"
    /\ pc' = "poll"
    /\ UNCHANGED <<lastRaised, now, timeout_seconds, unlock_spi_device, timeout,
                   lock_wait_seconds, measurement, held, spi_locked, configured, sleeping,
                   logged, out, decoded, lastOutcome, lastPollReturn, producedAt,
                   resumedAt, contentions, contentionsSinceAcquire, acquisitions,
                   unexpectedCount, pollBlockedCount, cycle>>
    /\ UNCHANGED <<waitTimeoutArg, pollIssuedAt, dcall, unlocks>>

\* line 183: asyncio.sleep(1) returns
FloodSleep ==
    /\ pc = "flood"
    /\ \E j \in 0..MaxJitter : now' = now + sleeping + j
    /\ pc' = "poll"
    /\ UNCHANGED <<lastRaised, timeout_seconds, unlock_spi_device, timeout, lock_wait_seconds,
                   measurement, held, spi_locked, configured, sleeping, logged, out,
                   decoded, lastOutcome, lastPollReturn, producedAt, resumedAt,
                   contentions, contentionsSinceAcquire, acquisitions, unexpectedCount,
                   pollBlockedCount, cycle>>
    /\ UNCHANGED <<waitTimeoutArg, pollIssuedAt, dcall, unlocks>>

\* lines 184-186 with _receive_measurement (lines 141-160) returning a value:
\* None for no packet and for a DecodeError, a Measurement otherwise
PollReturns ==
    /\ pc = "poll"
    /\ waitTimeoutArg' = WaitTimeout(timeout, now)
    /\ pollIssuedAt' = now
    /\ \E d \in WaitDurations(WaitTimeout(timeout, now)), o \in {"NoPacket", "DecodeError", "Measurement"} :
          /\ o = "Measurement" => Len(decoded) < MaxMeasurements
          /\ now' = now + d
          /\ lastPollReturn' = now + d
          /\ lastOutcome' = o
          /\ measurement' = IF o = "Measurement" THEN Len(decoded) + 1 ELSE None
          /\ decoded' = IF o = "Measurement" THEN Append(decoded, Len(decoded) + 1)
                        ELSE decoded
    /\ cycle' = <<>>
    /\ pc' = "check"
    /\ UNCHANGED <<lastRaised, timeout_seconds, unlock_spi_device, timeout, lock_wait_seconds, held,
                   spi_locked, configured, sleeping, logged, out, producedAt, resumedAt,
                   contentions, contentionsSinceAcquire, acquisitions, unexpectedCount,
                   pollBlockedCount>>
    /\ UNCHANGED <<dcall, unlocks>>

\* lines 184-186 with _receive_measurement raising
PollRaises ==
    /\ pc = "poll"
    /\ waitTimeoutArg' = WaitTimeout(timeout, now)
    /\ pollIssuedAt' = now
    /\ \E d \in WaitDurations(WaitTimeout(timeout, now)), o \in {"UnexpectedLength", "WouldBlock", "Error"} :
          /\ o = "UnexpectedLength" => unexpectedCount < MaxUnexpected
          /\ o = "WouldBlock" => pollBlockedCount < MaxPollBlocked
          /\ now' = now + d
          /\ lastPollReturn' = now + d
          /\ lastOutcome' = o
          /\ unexpectedCount' = IF o = "UnexpectedLength" THEN unexpectedCount + 1
                                ELSE unexpectedCount
          /\ pollBlockedCount' = IF o = "WouldBlock" THEN pollBlockedCount + 1
                                 ELSE pollBlockedCount
          /\ Raise(o, <<>>)
    /\ UNCHANGED <<timeout_seconds, unlock_spi_device, timeout, lock_wait_seconds,
                   measurement, configured, out, decoded, producedAt, resumedAt,
                   acquisitions>>
    /\ UNCHANGED <<dcall, unlocks>>

\* lines 187-188: yield the measurement, or go round the inner loop
YieldOrContinue ==
    /\ pc = "check"
    /\ IF Truthy(measurement)
       THEN /\ out' = Deliver(out, measurement)
            /\ producedAt' = now
            /\ pc' = "yielded"
       ELSE /\ pc' = "inner"
            /\ UNCHANGED <<out, producedAt>>
    /\ UNCHANGED <<lastRaised, now, timeout_seconds, unlock_spi_device, timeout, lock_wait_seconds,
                   measurement, held, spi_locked, configured, sleeping, logged, decoded,
                   lastOutcome, lastPollReturn, resumedAt, contentions,
                   contentionsSinceAcquire, acquisitions, unexpectedCount,
                   pollBlockedCount, cycle>>
    /\ UNCHANGED <<waitTimeoutArg, pollIssuedAt, dcall, unlocks>>

\* lines 189-190 with the deadline taken from the time of the yield
ResumeDeadlineFromYield ==
    /\ pc = "yielded"
    /\ \E d \in 0..MaxDelay :
          /\ now' = now + d
          /\ resumedAt' = now + d
          /\ timeout' = NewDeadline(now, timeout_seconds)
    /\ lock_wait_seconds' = _LOCK_WAIT_START_SECONDS
    /\ contentions' = 0
    /\ pc' = "inner"
    /\ UNCHANGED <<lastRaised, timeout_seconds, unlock_spi_device, measurement, held,
                   spi_locked, configured, sleeping, logged, out, decoded, lastOutcome,
                   lastPollReturn, producedAt, contentionsSinceAcquire, acquisitions,
                   unexpectedCount, pollBlockedCount, cycle>>
    /\ UNCHANGED <<waitTimeoutArg, pollIssuedAt, dcall, unlocks>>

\* lines 189-190 without line 190: the wait keeps the value the contentions left
ResumeKeepsLockWait ==
    /\ pc = "yielded"
    /\ \E d \in 0..MaxDelay :
          /\ now' = now + d
          /\ resumedAt' = now + d
          /\ timeout' = NewDeadline(now + d, timeout_seconds)
    /\ contentions' = 0
    /\ pc' = "inner"
    /\ UNCHANGED <<lastRaised, timeout_seconds, unlock_spi_device, measurement, held, spi_locked,
                   configured, sleeping, logged, out, decoded, lastOutcome,
                   lastPollReturn, producedAt, contentionsSinceAcquire, acquisitions,
                   unexpectedCount, pollBlockedCount, cycle, lock_wait_seconds>>
    /\ UNCHANGED <<waitTimeoutArg, pollIssuedAt, dcall, unlocks>>

\* lines 189-190: the consumer asks for the next item, some time after the yield
Resume ==
    /\ pc = "yielded"
    /\ \E d \in 0..MaxDelay :
          /\ now' = now + d
          /\ resumedAt' = now + d
          /\ timeout' = NewDeadline(now + d, timeout_seconds)
    /\ lock_wait_seconds' = _LOCK_WAIT_START_SECONDS
    /\ contentions' = 0
    /\ pc' = "inner"
    /\ UNCHANGED <<lastRaised, timeout_seconds, unlock_spi_device, measurement, held, spi_locked,
                   configured, sleeping, logged, out, decoded, lastOutcome,
                   lastPollReturn, producedAt, contentionsSinceAcquire, acquisitions,
                   unexpectedCount, pollBlockedCount, cycle>>
    /\ UNCHANGED <<waitTimeoutArg, pollIssuedAt, dcall, unlocks>>

\* the consumer closes the generator at the yield (GeneratorExit) or cancels the
\* task while it awaits asyncio.sleep (CancelledError); neither is caught by the
\* except clauses, so the `with` block, if entered, is exited on the way out
Close ==
    /\ pc \in {"yielded", "flood", "cooldown", "backoff"}
    /\ pc' = "Closed"
    /\ held' = ExitContext(held)
    /\ spi_locked' = (ExitContext(held) /\ spi_locked)
    /\ cycle' = IF held THEN Append(cycle, "release") ELSE cycle
    /\ UNCHANGED <<lastRaised, now, timeout_seconds, unlock_spi_device, timeout, lock_wait_seconds,
                   measurement, configured, sleeping, logged, out, decoded, lastOutcome,
                   lastPollReturn, producedAt, resumedAt, contentions,
                   contentionsSinceAcquire, acquisitions, unexpectedCount,
                   pollBlockedCount>>
    /\ UNCHANGED <<waitTimeoutArg, pollIssuedAt, dcall, unlocks>>

\* line 196: asyncio.sleep(1) returns
CooldownSleep ==
    /\ pc = "cooldown"
    /\ \E j \in 0..MaxJitter : now' = now + sleeping + j
    /\ cycle' = Append(cycle, "cooldown")
    /\ pc' = "outer"
    /\ UNCHANGED <<lastRaised, timeout_seconds, unlock_spi_device, timeout, lock_wait_seconds,
                   measurement, held, spi_locked, configured, sleeping, logged, out,
                   decoded, lastOutcome, lastPollReturn, producedAt, resumedAt,
                   contentions, contentionsSinceAcquire, acquisitions, unexpectedCount,
                   pollBlockedCount>>
    /\ UNCHANGED <<waitTimeoutArg, pollIssuedAt, dcall, unlocks>>

\* lines 199-200 with the time spent waiting added to the deadline
BackoffSleepExtendsDeadline ==
    /\ pc = "backoff"
    /\ \E j \in 0..MaxJitter : now' = now + sleeping + j
    /\ timeout' = timeout + sleeping
    /\ lock_wait_seconds' = NextLockWait(lock_wait_seconds)
    /\ pc' = "outer"
    /\ UNCHANGED <<lastRaised, timeout_seconds, unlock_spi_device, measurement, held,
                   spi_locked, configured, sleeping, logged, out, decoded, lastOutcome,
                   lastPollReturn, producedAt, resumedAt, contentions,
                   contentionsSinceAcquire, acquisitions, unexpectedCount,
                   pollBlockedCount, cycle>>
    /\ UNCHANGED <<waitTimeoutArg, pollIssuedAt, dcall, unlocks>>

\* lines 199-200: asyncio.sleep(lock_wait_seconds) returns, then the wait is doubled
BackoffSleep ==
    /\ pc = "backoff"
    /\ \E j \in 0..MaxJitter : now' = now + sleeping + j
    /\ lock_wait_seconds' = NextLockWait(lock_wait_seconds)
    /\ pc' = "outer"
    /\ UNCHANGED <<lastRaised, timeout_seconds, unlock_spi_device, timeout, measurement, held,
                   spi_locked, configured, sleeping, logged, out, decoded, lastOutcome,
                   lastPollReturn, producedAt, resumedAt, contentions,
                   contentionsSinceAcquire, acquisitions, unexpectedCount,
                   pollBlockedCount, cycle>>
    /\ UNCHANGED <<waitTimeoutArg, pollIssuedAt, dcall, unlocks>>

Next ==
    \/ Start
    \/ OuterLoop
    \/ EnterAcquired
    \/ EnterWouldBlock
    \/ Configure
    \/ ConfigureError
    \/ InnerLoop
    \/ FloodSleep
    \/ PollReturns
    \/ PollRaises
    \/ YieldOrContinue
    \/ Resume
    \/ Close
    \/ CooldownSleep
    \/ BackoffSleep

Spec == Init /\ [][Next]_vars

\* the steps of the coroutine and of a consumer that keeps asking for the next item
Progress ==
    \/ Start
    \/ OuterLoop
    \/ EnterAcquired
    \/ EnterWouldBlock
    \/ Configure
    \/ ConfigureError
    \/ InnerLoop
    \/ FloodSleep
    \/ PollReturns
    \/ PollRaises
    \/ YieldOrContinue
    \/ Resume
    \/ CooldownSleep
    \/ BackoffSleep

\* the event loop keeps running the coroutine (every sleep and every packet wait
\* returns) and the consumer keeps pulling unless it closes the generator
FairSpec == Spec /\ WF_vars(Progress)

\* ===========================================================================
\* The decoding functions: _parse_message, _parse_transmission and
\* _receive_measurement.  Bit arrays are sequences of 0 and 1, byte strings are
\* sequences of 0..255.
\* ===========================================================================

_MESSAGE_LENGTH_BITS == 65
_MESSAGE_REPEATS == 3
_SYNC_WORD == <<255, 168>>

\* `math.ceil(self._MESSAGE_LENGTH_BITS * self._MESSAGE_REPEATS / 8)`
_transmission_length_bytes == (_MESSAGE_LENGTH_BITS * _MESSAGE_REPEATS + 7) \div 8

\* the calibration 576.077364 and 51451.432435, as units and millionths, and -40
TemperatureSlopeUnits == 576
TemperatureSlopeMicro == 77364
TemperatureIntercept == -40
HumiditySlopeUnits == 51451
HumiditySlopeMicro == 432435

\* the float n / (units + micro / 10^6), kept exact
Quotient(n, units, micro) == [num |-> n, units |-> units, micro |-> micro]

\* q <= 1 and q >= 0 for a quotient q with 0 <= micro < 10^6 and an integer num
AtMostOne(q) == q.num < q.units \/ (q.num = q.units /\ q.micro >= 0)
AtLeastZero(q) == q.num >= 0

\* numpy.unpackbits: every byte gives 8 bits, most significant first
Unpackbits(signal) ==
    [i \in 1..(8 * Len(signal)) |->
        (signal[((i - 1) \div 8) + 1] \div Pow2(7 - ((i - 1) % 8))) % 2]

\* numpy.packbits: 8 bits per byte, most significant first, the last byte padded
\* with zero bits at its end
Packbits(bits) ==
    LET b(i) == IF i <= Len(bits) THEN bits[i] ELSE 0
    IN  [j \in 1..((Len(bits) + 7) \div 8) |->
            128 * b(8 * j - 7) + 64 * b(8 * j - 6) + 32 * b(8 * j - 5)
            + 16 * b(8 * j - 4) + 8 * b(8 * j - 3) + 4 * b(8 * j - 2)
            + 2 * b(8 * j - 1) + b(8 * j)]

\* struct.unpack(">H", two bytes)
UnpackHLittleEndian(bytes) == bytes[2] * 256 + bytes[1]
UnpackH(bytes) == bytes[1] * 256 + bytes[2]

\* python slicing seq[a:b] (0-based, b exclusive, cut at the end of seq)
Slice(seq, a, b) == SubSeq(seq, a + 1, IF b <= Len(seq) THEN b ELSE Len(seq))

\* `(bits[:8] != 1).any()`
InvalidPrefixAll(bits) == \A i \in 1..8 : bits[i] # 1
InvalidPrefix(bits) == \E i \in 1..8 : bits[i] # 1

\* `bits[32:44]` and `bits[44:56]`
TemperatureBits(bits) == Slice(bits, 32, 44)
HumidityBitsWithSuffix(bits) == Slice(bits, 44, 57)
HumidityBits(bits) == Slice(bits, 44, 56)

\* lines 56-87; clock is datetime.datetime.now()
_parse_message(bits, clock) ==
    IF Len(bits) # _MESSAGE_LENGTH_BITS
    THEN [kind |-> "AssertionError", message |-> <<Len(bits)>>]
    ELSE IF InvalidPrefix(bits)
    THEN [kind |-> "DecodeError",
          message |-> [text |-> "invalid prefix in message", bits |-> bits]]
    ELSE LET temperature_index == UnpackH(Packbits(TemperatureBits(bits)))
             relative_humidity_index == UnpackH(Packbits(HumidityBits(bits)))
         IN  [kind |-> "Measurement",
              measurement |->
                [decoding_timestamp |-> clock,
                 temperature_degrees_celsius |->
                    [quotient |-> Quotient(temperature_index, TemperatureSlopeUnits,
                                           TemperatureSlopeMicro),
                     plus |-> TemperatureIntercept],
                 relative_humidity |->
                    Quotient(relative_humidity_index, HumiditySlopeUnits,
                             HumiditySlopeMicro)]]

\* numpy.split(bits, 3): three parts of equal length
Split(bits) ==
    LET n == Len(bits) \div _MESSAGE_REPEATS
    IN  [k \in 1.._MESSAGE_REPEATS |-> SubSeq(bits, (k - 1) * n + 1, k * n)]

\* lines 98-100: repeat 0 equals repeat 1 or repeat 2
RepeatsMatchMajority(repeats_bits) ==
    \/ repeats_bits[1] = repeats_bits[2]
    \/ repeats_bits[1] = repeats_bits[3]
    \/ repeats_bits[2] = repeats_bits[3]
RepeatsMatch(repeats_bits) ==
    \/ repeats_bits[1] = repeats_bits[2]
    \/ repeats_bits[1] = repeats_bits[3]

\* line 101: the repeat that is decoded
SelectedRepeatSecond(repeats_bits) == repeats_bits[2]
SelectedRepeat(repeats_bits) == repeats_bits[1]

\* lines 90-102; parse_message_calls lists the arguments of the _parse_message calls
_parse_transmission(signal, clock) ==
    LET bits == Slice(Unpackbits(signal), 0, _MESSAGE_LENGTH_BITS * _MESSAGE_REPEATS)
    IN  IF Len(bits) % _MESSAGE_REPEATS # 0
        THEN [outcome |-> [kind |-> "ValueError"], parse_message_calls |-> <<>>]
        ELSE LET repeats_bits == Split(bits)
             IN  IF RepeatsMatch(repeats_bits)
                 THEN [outcome |-> _parse_message(SelectedRepeat(repeats_bits), clock),
                       parse_message_calls |-> <<SelectedRepeat(repeats_bits)>>]
                 ELSE [outcome |-> [kind |-> "DecodeError",
                                    message |-> [text |-> "repeats do not match"]],
                       parse_message_calls |-> <<>>]

\* line 154: `signal.shape != (self._transmission_length_bytes,)`
UnexpectedShapeShortOnly(signal) == Len(signal) < _transmission_length_bytes
UnexpectedShape(signal) == Len(signal) # _transmission_length_bytes

\* the value of `packet` when _wait_for_packet returns None
NoPacket == [none |-> TRUE]

\* lines 141-160; parse_transmission_calls lists the arguments of the
\* _parse_transmission calls
_receive_measurement(packet, clock) ==
    IF packet = NoPacket
    THEN [outcome |-> [kind |-> "None", debug |-> "timeout or fetching packet failed"],
          parse_transmission_calls |-> <<>>]
    ELSE LET signal == _SYNC_WORD \o packet.payload
         IN  IF UnexpectedShape(signal)
             THEN [outcome |-> [kind |-> "_UnexpectedPacketLengthError"],
                   parse_transmission_calls |-> <<>>]
             ELSE LET t == _parse_transmission(signal, clock).outcome
                  IN  [outcome |-> IF t.kind = "DecodeError"
                                   THEN [kind |-> "None", debug |-> "failed to decode"]
                                   ELSE t,
                       parse_transmission_calls |-> <<signal>>]

\* ---- the inputs the decoding functions are called with ----

\* the n bits of the unsigned integer v, most significant first
IntBits(v, n) == [i \in 1..n |-> (v \div Pow2(n - i)) % 2]

\* a message with the given fields: prefix [0,8), address [8,32),
\* temperature [32,44), humidity [44,56), suffix [56,65)
MessageBits(f) ==
    IntBits(f.prefix, 8) \o IntBits(f.address, 24) \o IntBits(f.temperature, 12)
        \o IntBits(f.humidity, 12) \o IntBits(f.suffix, 9)

\* r with bit number i (from 1) inverted; r itself for i = 0
Flip(r, i) == [k \in 1..Len(r) |-> IF k = i THEN 1 - r[k] ELSE r[k]]

MessageInputs ==
    [prefix : {255, 254, 127, 0},
     address : {0, 11055904},
     temperature : {0, 1, 2304, 4095},
     humidity : {0, 1519, 3215, 3216, 4095},
     suffix : {0, 67, 511}]

PairInputs ==
    [prefix : {255, 127},
     address : {0, 11055904},
     temperature : {1, 2304},
     humidity : {1519, 4095},
     suffix : {67, 511}]

\* transmissions: a first repeat, the bits in which the second and the third
\* repeat differ from it (0: they do not), and the 5 bits after the repeats
TransmissionInputs ==
    [first : [prefix : {255, 127}, address : {11055904}, temperature : {2304},
              humidity : {1519, 4095}, suffix : {67}],
     flip1 : {0, 1, 40, 65},
     flip2 : {0, 1, 40, 65},
     trailing : {0, 31}]

Repeats(t) ==
    LET r == MessageBits(t.first)
    IN  <<r, Flip(r, t.flip1), Flip(r, t.flip2)>>

TransmissionSignal(t) ==
    Packbits(Repeats(t)[1] \o Repeats(t)[2] \o Repeats(t)[3] \o IntBits(t.trailing, 5))

\* payloads: the bytes of a transmission after its first two, with the last byte
\* dropped (-1), as they are (0) or with one more byte (1); 17 bytes 0xFF; none
PayloadInputs ==
    [transmission : [first : [prefix : {255}, address : {11055904, 0},
                              temperature : {2304}, humidity : {1519},
                              suffix : {67}],
                     flip1 : {0, 40}, flip2 : {0, 40, 65}, trailing : {0, 31}],
     resize : {-1, 0, 1}]

Payload(p) ==
    LET s == TransmissionSignal(p.transmission)
    IN  IF p.resize = -1 THEN SubSeq(s, 3, Len(s) - 1)
        ELSE IF p.resize = 1 THEN SubSeq(s, 3, Len(s)) \o <<255>>
        ELSE SubSeq(s, 3, Len(s))

ShortPayloads == {[i \in 1..17 |-> 255], <<>>}

\* ---- one action per decoding function ----

ParseMessageCall ==
    /\ dcall = NoCall
    /\ \E f \in MessageInputs :
          dcall' = [fn |-> "_parse_message", fields |-> f, bits |-> MessageBits(f),
                    result |-> _parse_message(MessageBits(f), now)]
    /\ UNCHANGED <<pc, now, timeout_seconds, unlock_spi_device, timeout,
                   lock_wait_seconds, measurement, held, spi_locked, configured,
                   sleeping, logged, out, decoded, lastOutcome, lastRaised,
                   lastPollReturn, producedAt, resumedAt, contentions,
                   contentionsSinceAcquire, acquisitions, unexpectedCount,
                   pollBlockedCount, cycle, waitTimeoutArg, pollIssuedAt,
                   unlocks>>

\* _parse_message called on two messages
ParseMessagePairCall ==
    /\ dcall = NoCall
    /\ \E f \in PairInputs, g \in PairInputs :
          dcall' = [fn |-> "_parse_message twice", fields |-> <<f, g>>,
                    result |-> <<_parse_message(MessageBits(f), now),
                                 _parse_message(MessageBits(g), now)>>]
    /\ UNCHANGED <<pc, now, timeout_seconds, unlock_spi_device, timeout,
                   lock_wait_seconds, measurement, held, spi_locked, configured,
                   sleeping, logged, out, decoded, lastOutcome, lastRaised,
                   lastPollReturn, producedAt, resumedAt, contentions,
                   contentionsSinceAcquire, acquisitions, unexpectedCount,
                   pollBlockedCount, cycle, waitTimeoutArg, pollIssuedAt,
                   unlocks>>

ParseTransmissionCall ==
    /\ dcall = NoCall
    /\ \E t \in TransmissionInputs :
          dcall' = [fn |-> "_parse_transmission", repeats |-> Repeats(t),
                    signal |-> TransmissionSignal(t),
                    result |-> _parse_transmission(TransmissionSignal(t), now)]
    /\ UNCHANGED <<pc, now, timeout_seconds, unlock_spi_device, timeout,
                   lock_wait_seconds, measurement, held, spi_locked, configured,
                   sleeping, logged, out, decoded, lastOutcome, lastRaised,
                   lastPollReturn, producedAt, resumedAt, contentions,
                   contentionsSinceAcquire, acquisitions, unexpectedCount,
                   pollBlockedCount, cycle, waitTimeoutArg, pollIssuedAt,
                   unlocks>>

ReceiveMeasurementCall ==
    /\ dcall = NoCall
    /\ \E packet \in {NoPacket} \cup {[payload |-> Payload(p)] : p \in PayloadInputs}
                       \cup {[payload |-> s] : s \in ShortPayloads} :
          dcall' = [fn |-> "_receive_measurement", packet |-> packet,
                    result |-> _receive_measurement(packet, now)]
    /\ UNCHANGED <<pc, now, timeout_seconds, unlock_spi_device, timeout,
                   lock_wait_seconds, measurement, held, spi_locked, configured,
                   sleeping, logged, out, decoded, lastOutcome, lastRaised,
                   lastPollReturn, producedAt, resumedAt, contentions,
                   contentionsSinceAcquire, acquisitions, unexpectedCount,
                   pollBlockedCount, cycle, waitTimeoutArg, pollIssuedAt,
                   unlocks>>

\* the call returns to its caller
DecodeReturn ==
    /\ dcall # NoCall
    /\ dcall' = NoCall
    /\ UNCHANGED <<pc, now, timeout_seconds, unlock_spi_device, timeout,
                   lock_wait_seconds, measurement, held, spi_locked, configured,
                   sleeping, logged, out, decoded, lastOutcome, lastRaised,
                   lastPollReturn, producedAt, resumedAt, contentions,
                   contentionsSinceAcquire, acquisitions, unexpectedCount,
                   pollBlockedCount, cycle, waitTimeoutArg, pollIssuedAt,
                   unlocks>>

DecodeInit ==
    /\ Init
    /\ timeout_seconds = 1
    /\ unlock_spi_device = FALSE

DecodeNext ==
    \/ ParseMessageCall
    \/ ParseMessagePairCall
    \/ ParseTransmissionCall
    \/ ReceiveMeasurementCall
    \/ DecodeReturn

DecodeSpec == DecodeInit /\ [][DecodeNext]_vars

IsMeasurement(x) == x # None
IsNone(x) == x = None

\* ---------------------------------------------------------------------------
\* C1: a poll attempt that completes with no packet delivers exactly one None
\* item to the consumer before the next poll attempt, and the session stays in
\* the polling loop on the same acquisition.
C1_NoPacketDeliversNone ==
    [][(pc = "check" /\ lastOutcome = "NoPacket")
         => (out' = Append(out, None) /\ held' /\ pc' \in {"yielded", "inner"})]_vars

\* C2: the Measurement items delivered are exactly the decoded measurements, each
\* once and in decoding order; between the decoding and the yield the one
\* measurement held in `measurement` is the only one not yet delivered.
C2_MeasurementsDeliveredInOrder ==
    LET delivered == SelectSeq(out, IsMeasurement)
    IN  IF pc = "check" /\ Truthy(measurement)
        THEN decoded = Append(delivered, measurement)
        ELSE decoded = delivered

C2_Witness ==
    /\ pc = "yielded"
    /\ out = <<1, 2>>
    /\ lastOutcome = "Measurement"

\* C3 as stated: once the consumer has pulled again after a Measurement produced
\* at time T (producedAt), the deadline is T + timeout_seconds.
C3_DeadlineFromProductionTime ==
    (producedAt >= 0 /\ resumedAt >= producedAt)
        => timeout = producedAt + timeout_seconds

\* C3 amended: once the consumer has pulled again, at time R (resumedAt), after a
\* Measurement produced at time T, the deadline is R + timeout_seconds; while the
\* generator is still suspended at the yield the deadline is the one it had
\* before the Measurement.
C3_DeadlineFromResumptionTime ==
    /\ (producedAt >= 0 /\ resumedAt >= producedAt)
          => timeout = resumedAt + timeout_seconds
    /\ (pc \in {"yielded", "Closed"} /\ producedAt >= 0 /\ resumedAt < 0)
          => timeout = timeout_seconds

C3_Witness ==
    /\ pc = "inner"
    /\ producedAt >= 0
    /\ resumedAt = producedAt + MaxDelay
    /\ now = resumedAt
    /\ timeout = producedAt + MaxDelay + timeout_seconds

\* C4: when the coroutine keeps being run, the consumer neither closes the
\* generator nor stops pulling and no unhandled error is raised, the session
\* reaches Ended once no further Measurement is produced (at most
\* MaxMeasurements are), whatever the other poll outcomes are.
C4_EventuallyEnded ==
    [](pc # "Closed" /\ pc # "Failed") => <>(pc = "Ended")

C4_Witness ==
    /\ pc = "Ended"
    /\ Len(out) >= 1
    /\ unexpectedCount >= 1
    /\ pollBlockedCount >= 1
    /\ lastOutcome \in {"NoPacket", "DecodeError"}

\* C5: the session ends on its own only when the deadline has been reached, and
\* the only exceptions that end it are the ones that are neither the
\* unexpected-length nor the would-block condition.
C5_EndsOnlyAtDeadline ==
    /\ pc = "Ended" => now >= timeout
    /\ pc = "Failed" => lastRaised = "Error"
    /\ (lastRaised \in {"UnexpectedLength", "WouldBlock"} /\ now < timeout)
          => pc \notin {"Ended", "Failed"}

C5_Witness ==
    /\ pc = "poll"
    /\ now < timeout
    /\ unexpectedCount >= 1
    /\ pollBlockedCount >= 1
    /\ lastOutcome = "DecodeError"
    /\ lastRaised = "WouldBlock"

\* C6: a session that has terminated (deadline, consumer stop or propagated
\* error) does not hold the transceiver or its lock.
C6_ReleasedOnEveryExit ==
    pc \in Terminal => (~held /\ ~spi_locked)

C6_Witness ==
    /\ pc = "Closed"
    /\ producedAt = now
    /\ Len(cycle) > 0
    /\ cycle[Len(cycle)] = "release"

\* C7: the k-th of consecutive contentions, counted from the start of the session
\* or from the last reset of the backoff, sleeps (and logs) 2^k seconds.
C7_BackoffDoubles ==
    pc = "backoff" => (sleeping = Pow2(contentions) /\ logged = Pow2(contentions))

C7_Witness ==
    /\ pc = "backoff"
    /\ contentions = 3
    /\ sleeping = 8

\* C8: the first contention after a successful acquisition waits the initial
\* backoff of 2 seconds, whether or not a Measurement was produced during that
\* acquisition.
C8_AcquisitionResetsBackoff ==
    (pc = "backoff" /\ acquisitions >= 1 /\ contentionsSinceAcquire = 1)
        => sleeping = 2

\* C9: a poll attempt is issued at least 1 second after the previous poll attempt
\* returned.
C9_PollsSpaced ==
    (pc = "poll" /\ lastPollReturn >= 0) => now >= lastPollReturn + 1

C9_Witness ==
    /\ pc = "poll"
    /\ lastOutcome = "NoPacket"
    /\ now = lastPollReturn + 1

C11_ConfiguredBeforePoll ==
    /\ (pc \in {"inner", "flood", "poll", "check", "yielded"}) => (held /\ configured)
    /\ (pc = "poll" /\ lastOutcome \in {"NoPacket", "DecodeError", "Measurement"})
          => cycle = <<>>
    /\ (pc = "poll" /\ lastOutcome \notin {"NoPacket", "DecodeError", "Measurement"})
          => /\ Len(cycle) >= 2
             /\ cycle[Len(cycle) - 1] = "acquire"
             /\ cycle[Len(cycle)] = "configure"

C11_Witness ==
    /\ pc = "poll"
    /\ lastOutcome = "Measurement"
    /\ Len(out) = 2
    /\ acquisitions = 1
    /\ configured

\* C16: a DecodeError raised while decoding a packet of the expected length
\* delivers one None item to the consumer and leaves the acquisition as it is: no
\* release, no acquisition, no configuration, and the coroutine stays in the
\* polling loop.
C16_DecodeErrorDeliversNone ==
    [][(pc = "check" /\ lastOutcome = "DecodeError")
         => /\ out' = Append(out, None)
            /\ held' /\ configured'
            /\ acquisitions' = acquisitions
            /\ cycle' = cycle
            /\ pc' \in {"yielded", "inner"}]_vars

C12_AcceptsIffFirstRepeatMatches ==
    dcall.fn = "_parse_transmission" =>
        LET r == dcall.repeats
            match == r[1] = r[2] \/ r[1] = r[3]
            res == dcall.result
        IN  /\ match <=> res.parse_message_calls # <<>>
            /\ ~match <=> /\ res.outcome.kind = "DecodeError"
                          /\ res.outcome.message.text = "repeats do not match"

C12_Witness ==
    /\ dcall.fn = "_parse_transmission"
    /\ dcall.repeats[2] = dcall.repeats[3]
    /\ dcall.repeats[1] # dcall.repeats[2]
    /\ dcall.result.outcome.kind = "DecodeError"
    /\ dcall.result.parse_message_calls = <<>>

\* C13: _parse_message fails with DecodeError "invalid prefix" iff the first 8
\* bits are not all 1, and returns a Measurement otherwise.
C13_InvalidPrefixIffNotAllOnes ==
    dcall.fn = "_parse_message" =>
        /\ dcall.fields.prefix # 255
              <=> /\ dcall.result.kind = "DecodeError"
                  /\ dcall.result.message.text = "invalid prefix in message"
        /\ dcall.fields.prefix = 255 <=> dcall.result.kind = "Measurement"

C13_Witness ==
    /\ dcall.fn = "_parse_message"
    /\ dcall.fields.prefix = 254
    /\ dcall.result.kind = "DecodeError"

\* C14 as stated: temperature = t / 576.077364 - 40 and relative_humidity =
\* h / 51451.432435 for the 12-bit integers t of bits [32,44) and h of bits [44,56).
C14_CalibrationOfTwelveBitIntegers ==
    (dcall.fn = "_parse_message" /\ dcall.result.kind = "Measurement") =>
        LET m == dcall.result.measurement
        IN  /\ m.temperature_degrees_celsius =
                  [quotient |-> Quotient(dcall.fields.temperature, 576, 77364),
                   plus |-> -40]
            /\ m.relative_humidity = Quotient(dcall.fields.humidity, 51451, 432435)

\* C14 amended: temperature = 16 * t / 576.077364 - 40 and relative_humidity =
\* 16 * h / 51451.432435: the 12 bits are the high bits of a 16-bit big-endian
\* integer whose low 4 bits are 0.
C14_CalibrationOfSixteenBitIntegers ==
    (dcall.fn = "_parse_message" /\ dcall.result.kind = "Measurement") =>
        LET m == dcall.result.measurement
        IN  /\ m.temperature_degrees_celsius =
                  [quotient |-> Quotient(16 * dcall.fields.temperature, 576, 77364),
                   plus |-> -40]
            /\ m.relative_humidity =
                  Quotient(16 * dcall.fields.humidity, 51451, 432435)

C14_Witness ==
    /\ dcall.fn = "_parse_message"
    /\ dcall.fields.temperature = 2304
    /\ dcall.fields.humidity = 1519
    /\ dcall.result.kind = "Measurement"
    /\ dcall.result.measurement.temperature_degrees_celsius.quotient.num = 36864
    /\ dcall.result.measurement.relative_humidity.num = 24304

\* C15: the relative_humidity of every Measurement that _parse_message returns
\* is within [0, 1].
C15_HumidityWithinUnitInterval ==
    (dcall.fn = "_parse_message" /\ dcall.result.kind = "Measurement") =>
        /\ AtLeastZero(dcall.result.measurement.relative_humidity)
        /\ AtMostOne(dcall.result.measurement.relative_humidity)

\* C17: when _parse_transmission accepts a transmission it calls _parse_message
\* once, on the first repeat, and its outcome is that call's outcome, a
\* Measurement or an invalid-prefix DecodeError.
C17_DecodesFirstRepeatOnce ==
    (dcall.fn = "_parse_transmission" /\ dcall.result.parse_message_calls # <<>>) =>
        /\ dcall.result.parse_message_calls = <<dcall.repeats[1]>>
        /\ dcall.result.outcome = _parse_message(dcall.repeats[1], now)
        /\ dcall.result.outcome.kind \in {"Measurement", "DecodeError"}

C17_Witness ==
    /\ dcall.fn = "_parse_transmission"
    /\ dcall.repeats[1] # dcall.repeats[2]
    /\ dcall.repeats[1] = dcall.repeats[3]
    /\ dcall.result.parse_message_calls = <<dcall.repeats[1]>>
    /\ dcall.result.outcome.kind = "DecodeError"
    /\ dcall.result.outcome.message.text = "invalid prefix in message"

\* C18: two messages that agree on the bits [0,8) and [32,56) have the same
\* outcome: both fail, or both give the same temperature and humidity.
C18_OutcomeIgnoresAddressAndSuffix ==
    dcall.fn = "_parse_message twice" =>
        LET f == dcall.fields[1]
            g == dcall.fields[2]
            a == dcall.result[1]
            b == dcall.result[2]
        IN  (f.prefix = g.prefix /\ f.temperature = g.temperature
                 /\ f.humidity = g.humidity)
            => /\ a.kind = b.kind
               /\ a.kind = "Measurement" =>
                     /\ a.measurement.temperature_degrees_celsius
                            = b.measurement.temperature_degrees_celsius
                     /\ a.measurement.relative_humidity
                            = b.measurement.relative_humidity

C18_Witness ==
    /\ dcall.fn = "_parse_message twice"
    /\ dcall.fields[1].address # dcall.fields[2].address
    /\ dcall.fields[1].suffix # dcall.fields[2].suffix
    /\ dcall.fields[1].prefix = 255 /\ dcall.fields[2].prefix = 255
    /\ dcall.fields[1].temperature = dcall.fields[2].temperature
    /\ dcall.fields[1].humidity = dcall.fields[2].humidity
    /\ dcall.result[1].kind = "Measurement"

\* C19: _receive_measurement calls _parse_transmission iff the 2 sync bytes plus
\* the payload are 25 bytes; otherwise it raises _UnexpectedPacketLengthError
\* without calling it; the signal it decodes is 0xFF 0xA8 followed by the payload.
C19_DecodesOnlyExpectedLength ==
    (dcall.fn = "_receive_measurement" /\ dcall.packet # NoPacket) =>
        LET payload == dcall.packet.payload
            calls == dcall.result.parse_transmission_calls
        IN  /\ calls # <<>> <=> 2 + Len(payload) = 25
            /\ calls = <<>> <=> dcall.result.outcome.kind = "_UnexpectedPacketLengthError"
            /\ calls # <<>> => calls = << <<255, 168>> \o payload >>

C19_Witness ==
    /\ dcall.fn = "_receive_measurement"
    /\ dcall.packet # NoPacket
    /\ Len(dcall.packet.payload) = 24
    /\ dcall.result.outcome.kind = "_UnexpectedPacketLengthError"
    /\ dcall.result.parse_transmission_calls = <<>>

\* ---------------------------------------------------------------------------
\* the positions of the coroutine inside the inner loop (lines 182-190)
PollingLoop == {"inner", "flood", "poll", "check", "yielded"}

\* C21: constructed with unlock_spi_device=True, the SPI device has been unlocked
\* once for every successful acquisition by the time the coroutine is in the
\* polling loop (so before the first poll of the acquisition) and not yet while
\* the configuration is pending; constructed with False, it is never unlocked.
C21_UnlockedOncePerAcquisition ==
    /\ unlocks <= acquisitions
    /\ ~unlock_spi_device => unlocks = 0
    /\ (~unlock_spi_device /\ held) => spi_locked
    /\ (unlock_spi_device /\ pc = "configure") => (unlocks = acquisitions - 1 /\ spi_locked)
    /\ (unlock_spi_device /\ pc \in PollingLoop)
          => (unlocks = acquisitions /\ configured /\ ~spi_locked)

C21_Witness ==
    /\ unlock_spi_device
    /\ pc = "poll"
    /\ acquisitions = 2
    /\ unlocks = 2
    /\ Len(out) >= 1
    /\ cycle = <<"release", "cooldown", "acquire", "configure">>

\* C22: once a Measurement was delivered and the consumer asked for the next
\* item, the wait is back at 2 seconds, and the first contention after that
\* sleeps (and logs) 2 seconds.
C22_MeasurementResetsBackoff ==
    /\ (producedAt >= 0 /\ resumedAt >= producedAt /\ contentions = 0)
          => lock_wait_seconds = _LOCK_WAIT_START_SECONDS
    /\ (pc = "backoff" /\ producedAt >= 0 /\ resumedAt >= producedAt /\ contentions = 1)
          => (sleeping = _LOCK_WAIT_START_SECONDS /\ logged = _LOCK_WAIT_START_SECONDS)

C22_Witness ==
    /\ pc = "backoff"
    /\ Len(out) = 1
    /\ resumedAt >= producedAt
    /\ producedAt >= 7
    /\ timeout_seconds = 7
    /\ acquisitions = 1
    /\ pollBlockedCount = 1
    /\ contentions = 1
    /\ sleeping = 2

\* C23: a BlockingIOError raised by a poll leaves the session running with the
\* transceiver released, sleeping the current wait; the next poll is issued
\* after one release, one acquisition and one configuration, with the wait
\* doubled, and every decoded measurement has been delivered.
C23_PollContentionHandled ==
    /\ (pc = "backoff" /\ lastOutcome = "WouldBlock")
          => /\ ~held /\ ~spi_locked
             /\ sleeping = lock_wait_seconds
             /\ logged = lock_wait_seconds
    /\ (pc = "poll" /\ lastOutcome = "WouldBlock")
          => /\ cycle = <<"release", "acquire", "configure">>
             /\ held /\ configured
             /\ lock_wait_seconds = logged * _LOCK_WAIT_FACTOR
    /\ (lastOutcome = "WouldBlock" /\ lastRaised = "WouldBlock")
          => /\ pc # "Failed"
             /\ pc = "Ended" => now >= timeout
             /\ SelectSeq(out, IsMeasurement) = decoded

C23_Witness ==
    /\ pc = "poll"
    /\ lastOutcome = "WouldBlock"
    /\ pollBlockedCount = 1
    /\ acquisitions = 2
    /\ Len(out) = 1
    /\ lock_wait_seconds = 4

\* C24: the deadline is set when the session starts and afterwards changes only
\* when the consumer asks for the next item after a Measurement, and it never
\* decreases.
C24_DeadlineOnlyExtendedByMeasurement ==
    [][timeout' # timeout =>
          /\ \/ pc = "start"
             \/ (pc = "yielded" /\ pc' = "inner" /\ lastOutcome = "Measurement")
          /\ timeout' >= timeout]_vars

C24_Witness ==
    /\ pc = "check"
    /\ lastOutcome = "DecodeError"
    /\ unexpectedCount >= 1
    /\ pollBlockedCount >= 1
    /\ contentions >= 1
    /\ producedAt = -1
    /\ timeout = timeout_seconds
    /\ now >= 6

\* C25: the coroutine is about to acquire the transceiver, to configure it or to
\* start the flood-protection sleep only at a time before the deadline, and when
\* the outer loop is reached at or after the deadline the session ends.
C25_NothingStartedAfterDeadline ==
    [][/\ pc' \in {"enter", "configure", "flood"} => now' < timeout'
       /\ (pc = "outer" /\ now >= timeout) => pc' = "Ended"
       /\ (pc = "inner" /\ now >= timeout) => pc' = "outer"]_vars

C25_Witness ==
    /\ pc = "Ended"
    /\ lastRaised = "UnexpectedLength"
    /\ lastOutcome = "UnexpectedLength"
    /\ unexpectedCount = 1
    /\ acquisitions = 1
    /\ now >= timeout
    /\ ~held

====
